---- MODULE Spec2Model ----
(***************************************************************************)
(* Model of the Windows wakelock plugin                                    *)
(* (windows/runner/wakelock_plugin.cpp, wakelock_plugin.h).                *)
(*                                                                         *)
(* The program state is the file-scope flag is_wakelock_enabled, the set   *)
(* of live WakelockPlugin instances (one per registrar), the thread        *)
(* execution state held by the OS, the OS calls issued so far and the      *)
(* replies sent on the method channel.  `ops` is the history of the        *)
(* operations performed, each with the observable state it left behind.    *)
(***************************************************************************)
EXTENDS Integers, Sequences, FiniteSets, TLC

VARIABLES is_wakelock_enabled, plugins, execState, osCalls, replies, ops

vars == <<is_wakelock_enabled, plugins, execState, osCalls, replies, ops>>

(* ------------------------------ bounds --------------------------------- *)
MaxOps == 6
NumRegistrars == 2

Registrars == 1..NumRegistrars

(* Method names a caller can send; the last two are not handled.           *)
MethodNames == {"enableWindows", "disableWindows", "foo", "enablewindows"}

(* --------------------------- OS interface ------------------------------ *)
(* Execution-state flags are modelled as sets of flag names; bitwise OR    *)
(* of distinct single-bit flags is set union.                              *)
ES_CONTINUOUS == {"ES_CONTINUOUS"}
ES_DISPLAY_REQUIRED == {"ES_DISPLAY_REQUIRED"}
ES_SYSTEM_REQUIRED == {"ES_SYSTEM_REQUIRED"}

EnableFlags == ES_CONTINUOUS \cup ES_DISPLAY_REQUIRED \cup ES_SYSTEM_REQUIRED
DisableFlags == ES_CONTINUOUS

(* A call carrying ES_CONTINUOUS stays in effect until the next such call; *)
(* the call is recorded in osCalls either way.  Return value is ignored.   *)
SetThreadExecutionState(flags) ==
    /\ osCalls' = Append(osCalls, flags)
    /\ execState' = IF ES_CONTINUOUS \subseteq flags THEN flags ELSE execState

NoOsCall == UNCHANGED <<osCalls, execState>>

(* ---------------------------- the plugin ------------------------------- *)
EnableWakelockUnguarded ==
    /\ SetThreadExecutionState(EnableFlags)
    /\ is_wakelock_enabled' = TRUE

EnableWakelockNoFlag ==
    IF ~is_wakelock_enabled
    THEN /\ SetThreadExecutionState(EnableFlags)
         /\ UNCHANGED is_wakelock_enabled
    ELSE /\ NoOsCall
         /\ UNCHANGED is_wakelock_enabled

EnableWakelock ==
    IF ~is_wakelock_enabled
    THEN /\ SetThreadExecutionState(EnableFlags)
         /\ is_wakelock_enabled' = TRUE
    ELSE /\ NoOsCall
         /\ UNCHANGED is_wakelock_enabled

DisableWakelockNoCall ==
    IF is_wakelock_enabled
    THEN /\ NoOsCall
         /\ is_wakelock_enabled' = FALSE
    ELSE /\ NoOsCall
         /\ UNCHANGED is_wakelock_enabled

DisableWakelockKeepSystem ==
    IF is_wakelock_enabled
    THEN /\ SetThreadExecutionState(ES_CONTINUOUS \cup ES_SYSTEM_REQUIRED)
         /\ is_wakelock_enabled' = FALSE
    ELSE /\ NoOsCall
         /\ UNCHANGED is_wakelock_enabled

DisableWakelockUnguarded ==
    /\ SetThreadExecutionState(DisableFlags)
    /\ is_wakelock_enabled' = FALSE

DisableWakelock ==
    IF is_wakelock_enabled
    THEN /\ SetThreadExecutionState(DisableFlags)
         /\ is_wakelock_enabled' = FALSE
    ELSE /\ NoOsCall
         /\ UNCHANGED is_wakelock_enabled

(* result->Success(EncodableValue(true)) / result->NotImplemented()        *)
Success(r, v) == replies' = Append(replies, [to |-> r, kind |-> "success", value |-> v])
NotImplemented(r) == replies' = Append(replies, [to |-> r, kind |-> "notImplemented", value |-> FALSE])

(* The entry appended to the history by an operation.                      *)
Record(k, r, m) ==
    ops' = Append(ops, [kind |-> k, inst |-> r, method |-> m,
                        enabled |-> is_wakelock_enabled',
                        calls |-> Len(osCalls'),
                        exec |-> execState',
                        replies |-> Len(replies'),
                        live |-> plugins'])

RegisterResetsFlag(r) ==
    /\ Len(ops) < MaxOps
    /\ r \notin plugins
    /\ plugins' = plugins \cup {r}
    /\ is_wakelock_enabled' = FALSE
    /\ UNCHANGED <<execState, osCalls, replies>>
    /\ Record("register", r, "")

RegisterWithRegistrar(r) ==
    /\ Len(ops) < MaxOps
    /\ r \notin plugins
    /\ plugins' = plugins \cup {r}
    /\ UNCHANGED <<is_wakelock_enabled, execState, osCalls, replies>>
    /\ Record("register", r, "")

HandleMethodCallUnknownDisables(r, method_name) ==
    /\ Len(ops) < MaxOps
    /\ r \in plugins
    /\ IF method_name = "enableWindows"
       THEN EnableWakelock /\ Success(r, TRUE)
       ELSE IF method_name = "disableWindows"
       THEN DisableWakelock /\ Success(r, TRUE)
       ELSE DisableWakelock /\ NotImplemented(r)
    /\ UNCHANGED plugins
    /\ Record("handle", r, method_name)

HandleMethodCallUnknownSucceeds(r, method_name) ==
    /\ Len(ops) < MaxOps
    /\ r \in plugins
    /\ IF method_name = "enableWindows"
       THEN EnableWakelock /\ Success(r, TRUE)
       ELSE IF method_name = "disableWindows"
       THEN DisableWakelock /\ Success(r, TRUE)
       ELSE NoOsCall /\ UNCHANGED is_wakelock_enabled /\ Success(r, TRUE)
    /\ UNCHANGED plugins
    /\ Record("handle", r, method_name)

HandleMethodCall(r, method_name) ==
    /\ Len(ops) < MaxOps
    /\ r \in plugins
    /\ IF method_name = "enableWindows"
       THEN EnableWakelock /\ Success(r, TRUE)
       ELSE IF method_name = "disableWindows"
       THEN DisableWakelock /\ Success(r, TRUE)
       ELSE NoOsCall /\ UNCHANGED is_wakelock_enabled /\ NotImplemented(r)
    /\ UNCHANGED plugins
    /\ Record("handle", r, method_name)

DestructorNoDisable(r) ==
    /\ Len(ops) < MaxOps
    /\ r \in plugins
    /\ NoOsCall
    /\ UNCHANGED is_wakelock_enabled
    /\ plugins' = plugins \ {r}
    /\ UNCHANGED replies
    /\ Record("destroy", r, "")

DestructorLastOnly(r) ==
    /\ Len(ops) < MaxOps
    /\ r \in plugins
    /\ IF plugins = {r}
       THEN DisableWakelock
       ELSE NoOsCall /\ UNCHANGED is_wakelock_enabled
    /\ plugins' = plugins \ {r}
    /\ UNCHANGED replies
    /\ Record("destroy", r, "")

Destructor(r) ==
    /\ Len(ops) < MaxOps
    /\ r \in plugins
    /\ DisableWakelock
    /\ plugins' = plugins \ {r}
    /\ UNCHANGED replies
    /\ Record("destroy", r, "")

(* Process start: the flag is statically false, no plugin exists, and the   *)
(* thread has made no execution-state request, i.e. the default behaviour  *)
(* that SetThreadExecutionState(ES_CONTINUOUS) restores is in force.       *)
Init ==
    /\ is_wakelock_enabled = FALSE
    /\ plugins = {}
    /\ execState = DisableFlags
    /\ osCalls = <<>>
    /\ replies = <<>>
    /\ ops = <<>>

Next ==
    \/ \E r \in Registrars : RegisterWithRegistrar(r)
    \/ \E r \in Registrars : \E m \in MethodNames : HandleMethodCall(r, m)
    \/ \E r \in Registrars : Destructor(r)

Spec == Init /\ [][Next]_vars

(* ----------------------- reading the history --------------------------- *)
Steps == 1..Len(ops)

PreEnabled(k) == IF k = 1 THEN FALSE ELSE ops[k-1].enabled
PreCalls(k) == IF k = 1 THEN 0 ELSE ops[k-1].calls
PreExec(k) == IF k = 1 THEN DisableFlags ELSE ops[k-1].exec
PreReplies(k) == IF k = 1 THEN 0 ELSE ops[k-1].replies

(* The OS calls issued by step k, in order.                                *)
CallsBy(k) == SubSeq(osCalls, PreCalls(k) + 1, ops[k].calls)

IsRequest(k, m) == ops[k].kind = "handle" /\ ops[k].method = m
IsEnableRequest(k) == IsRequest(k, "enableWindows")
IsDisableRequest(k) == IsRequest(k, "disableWindows")
IsUnknownRequest(k) ==
    /\ ops[k].kind = "handle"
    /\ ops[k].method \notin {"enableWindows", "disableWindows"}
IsDestroy(k) == ops[k].kind = "destroy"

(* Steps that call Enable() / Disable().                                   *)
CallsEnable(k) == IsEnableRequest(k)
CallsDisable(k) == IsDisableRequest(k) \/ IsDestroy(k)

Max(S) == CHOOSE x \in S : \A y \in S : y <= x

(* ------------------------------ claims --------------------------------- *)

(* C1: after any sequence of Enable()/Disable() calls, the execution-state *)
(* request in force (and the last OS call issued, when there is one) is    *)
(* the enable pattern if the last call was Enable() and the default        *)
(* pattern if the last call was Disable().                                 *)
C1_LastCallWins ==
    LET T == {k \in Steps : CallsEnable(k) \/ CallsDisable(k)}
    IN  T # {} =>
          LET expected == IF CallsEnable(Max(T)) THEN EnableFlags ELSE DisableFlags
          IN  /\ execState = expected
              /\ osCalls # <<>> => osCalls[Len(osCalls)] = expected

(* enable, enable, disable, then a repeated disable: four calls, two of    *)
(* them repeats, ending with the default pattern in force.                 *)
C1_Witness ==
    /\ Len(ops) >= 5
    /\ IsEnableRequest(2) /\ IsEnableRequest(3)
    /\ IsDisableRequest(4) /\ IsDisableRequest(5)
    /\ execState = DisableFlags
    /\ Len(osCalls) = 2

(* C2: Enable() in state false issues exactly one OS call with the enable  *)
(* pattern and sets the state; Enable() in state true issues none and      *)
(* leaves the state true; a run of consecutive enableWindows requests      *)
(* issues at most one OS call.                                             *)
C2_EnableOnTransitionOnly ==
    /\ \A k \in Steps : IsEnableRequest(k) =>
          /\ ops[k].enabled
          /\ ops[k].exec = EnableFlags
          /\ CallsBy(k) = IF PreEnabled(k) THEN <<>> ELSE <<EnableFlags>>
    /\ \A i \in Steps : \A j \in Steps :
          (i <= j /\ \A k \in i..j : IsEnableRequest(k))
              => ops[j].calls - PreCalls(i) <= 1

C2_Witness ==
    /\ Len(ops) >= 4
    /\ IsEnableRequest(2) /\ IsEnableRequest(3) /\ IsEnableRequest(4)
    /\ ~PreEnabled(2) /\ PreEnabled(3)
    /\ osCalls = <<EnableFlags>>

(* C3: Disable() in state true issues exactly one OS call with the default *)
(* pattern (continuous only) and sets the state to false; Disable() in     *)
(* state false issues no OS call and leaves the state false.               *)
C3_DisableOnTransitionOnly ==
    \A k \in Steps : IsDisableRequest(k) =>
        /\ ~ops[k].enabled
        /\ ops[k].exec = {"ES_CONTINUOUS"}
        /\ CallsBy(k) = IF PreEnabled(k) THEN << {"ES_CONTINUOUS"} >> ELSE <<>>

C3_Witness ==
    /\ Len(ops) >= 4
    /\ IsDisableRequest(2) /\ IsEnableRequest(3) /\ IsDisableRequest(4)
    /\ ~PreEnabled(2) /\ PreEnabled(4)
    /\ osCalls = <<EnableFlags, DisableFlags>>

(* C4: destroying an adapter runs the disable logic: if the state was held *)
(* the default-pattern call is issued exactly once, otherwise no call is   *)
(* issued; in every case the state is false and the default pattern is in  *)
(* force once the instance is gone.                                        *)
C4_DestructionReleases ==
    \A k \in Steps : IsDestroy(k) =>
        /\ ~ops[k].enabled
        /\ ops[k].exec = DisableFlags
        /\ ops[k].inst \notin ops[k].live
        /\ CallsBy(k) = IF PreEnabled(k) THEN <<DisableFlags>> ELSE <<>>

C4_Witness ==
    /\ Len(ops) >= 5
    /\ IsDestroy(3) /\ PreEnabled(3)
    /\ IsDestroy(5) /\ ~PreEnabled(5)
    /\ ~is_wakelock_enabled

(* The reply the channel contract prescribes for the request of step k.   *)
C5_ExpectedReply(k) ==
    IF ops[k].method = "enableWindows" \/ ops[k].method = "disableWindows"
    THEN [to |-> ops[k].inst, kind |-> "success", value |-> TRUE]
    ELSE [to |-> ops[k].inst, kind |-> "notImplemented", value |-> FALSE]

(* C5: every request gets exactly one reply, fixed by the method name      *)
(* alone: success/true for enableWindows (state then held) and for         *)
(* disableWindows (state then released), not-implemented for anything      *)
(* else; operations that are not requests send no reply.                   *)
C5_OneReplyPerRequest ==
    /\ Len(replies) = Cardinality({k \in Steps : ops[k].kind = "handle"})
    /\ \A k \in Steps :
          IF ops[k].kind = "handle"
          THEN /\ ops[k].replies = PreReplies(k) + 1
               /\ replies[ops[k].replies] = C5_ExpectedReply(k)
               /\ IsEnableRequest(k) => ops[k].enabled
               /\ IsDisableRequest(k) => ~ops[k].enabled
          ELSE ops[k].replies = PreReplies(k)

(* each method answered once in the released and once in the held state    *)
C5_Witness ==
    /\ Len(ops) >= 6
    /\ IsRequest(2, "foo") /\ ~PreEnabled(2)
    /\ IsEnableRequest(3) /\ IsEnableRequest(4)
    /\ IsRequest(5, "foo") /\ PreEnabled(5)
    /\ IsDisableRequest(6)
    /\ Len(replies) = 5

(* C6: a request with an unrecognized method name leaves the enabled flag  *)
(* and the execution state unchanged and issues no OS call, whether the    *)
(* state is held or released; not-implemented is the only non-success      *)
(* reply and is sent exactly for unrecognized names.                       *)
C6_UnknownMethodIsInert ==
    /\ \A k \in Steps : IsUnknownRequest(k) =>
          /\ ops[k].enabled = PreEnabled(k)
          /\ ops[k].exec = PreExec(k)
          /\ CallsBy(k) = <<>>
          /\ replies[ops[k].replies].kind = "notImplemented"
    /\ \A n \in 1..Len(replies) : replies[n].kind \in {"success", "notImplemented"}
    /\ \A k \in Steps :
          (ops[k].kind = "handle" /\ replies[ops[k].replies].kind # "success")
              => IsUnknownRequest(k)

C6_Witness ==
    /\ Len(ops) >= 4
    /\ IsRequest(2, "enablewindows") /\ ~PreEnabled(2)
    /\ IsEnableRequest(3)
    /\ IsRequest(4, "foo") /\ PreEnabled(4)
    /\ is_wakelock_enabled

(* C7: in every reachable state the flag is true exactly when the most     *)
(* recently issued OS call used the enable pattern.                        *)
C7_FlagMirrorsLastOsCall ==
    /\ is_wakelock_enabled
         <=> (osCalls # <<>> /\ osCalls[Len(osCalls)] = EnableFlags)
    /\ is_wakelock_enabled <=> (execState = EnableFlags)

C7_Witness ==
    /\ Len(osCalls) = 3
    /\ is_wakelock_enabled
    /\ \E k \in Steps : IsDestroy(k) /\ PreEnabled(k)
    /\ \E k \in Steps : IsUnknownRequest(k)

(* C8: once held, the wakelock stays held, with no default-pattern call,   *)
(* across enableWindows requests, unknown requests and registrations; the  *)
(* state goes from held to released only in a disableWindows request or   *)
(* the destruction of an adapter instance.                                 *)
C8_HeldUntilReleased ==
    \A k \in Steps : PreEnabled(k) =>
        /\ (IsEnableRequest(k) \/ IsUnknownRequest(k) \/ ops[k].kind = "register")
              => /\ ops[k].enabled
                 /\ CallsBy(k) = <<>>
                 /\ ops[k].exec = EnableFlags
        /\ ~ops[k].enabled => (IsDisableRequest(k) \/ IsDestroy(k))

C8_Witness ==
    /\ Len(ops) >= 6
    /\ IsEnableRequest(2)
    /\ IsUnknownRequest(3) /\ IsEnableRequest(4) /\ ops[5].kind = "register"
    /\ ops[5].enabled
    /\ IsDisableRequest(6) /\ ~is_wakelock_enabled

(* C9: the OS calls issued strictly alternate between the enable pattern   *)
(* and the default pattern, beginning with the enable pattern, and there   *)
(* are as many OS calls as changes of the enabled flag.                    *)
C9_CallsAlternate ==
    /\ \A n \in 1..Len(osCalls) :
          osCalls[n] = IF n % 2 = 1 THEN EnableFlags ELSE DisableFlags
    /\ \A n \in 1..(Len(osCalls) - 1) : osCalls[n] # osCalls[n+1]
    /\ Len(osCalls) = Cardinality({k \in Steps : ops[k].enabled # PreEnabled(k)})

C9_Witness ==
    /\ Len(osCalls) = 4
    /\ \E k \in Steps : IsEnableRequest(k) /\ PreEnabled(k)
    /\ ~is_wakelock_enabled

(* The instance through which the wakelock held before step k was taken.  *)
C10_Acquirer(k) ==
    ops[Max({j \in 1..(k-1) : ~PreEnabled(j) /\ ops[j].enabled})].inst

(* C10: the flag is shared by all adapter instances.  With the wakelock    *)
(* acquired through instance a and still held, on another instance b: an   *)
(* enableWindows issues no OS call, a disableWindows releases the          *)
(* wakelock, and destroying b issues the default-pattern call and sets     *)
(* the state to false even though a is still alive.                        *)
C10_FlagSharedAcrossInstances ==
    \A k \in Steps :
        (PreEnabled(k) /\ C10_Acquirer(k) # ops[k].inst) =>
            /\ IsEnableRequest(k) =>
                  ops[k].enabled /\ CallsBy(k) = <<>>
            /\ IsDisableRequest(k) =>
                  ~ops[k].enabled /\ CallsBy(k) = <<DisableFlags>>
            /\ (IsDestroy(k) /\ C10_Acquirer(k) \in ops[k].live) =>
                  ~ops[k].enabled /\ CallsBy(k) = <<DisableFlags>>

(* a acquires, b's enable is silent, b is destroyed: released, a alive     *)
C10_Witness ==
    /\ Len(ops) >= 5
    /\ ops[3].kind = "handle" /\ ops[3].method = "enableWindows" /\ ops[3].inst = 1
    /\ ops[4].kind = "handle" /\ ops[4].method = "enableWindows" /\ ops[4].inst = 2
    /\ ops[4].calls = 1
    /\ ops[5].kind = "destroy" /\ ops[5].inst = 2
    /\ 1 \in plugins
    /\ ~is_wakelock_enabled
    /\ osCalls = <<EnableFlags, DisableFlags>>

(* a acquires, b's disableWindows releases                                 *)
C10_WitnessDisable ==
    /\ Len(ops) >= 4
    /\ IsEnableRequest(3) /\ ops[3].inst = 1
    /\ IsDisableRequest(4) /\ ops[4].inst = 2
    /\ ~is_wakelock_enabled

====
